---------------------------- MODULE Spec2Model ----------------------------
(*************************************************************************)
(* Workbench application template (scripts/startup/                      *)
(* bl_app_templates_system/Workbench/__init__.py).                       *)
(*                                                                       *)
(* The model covers the path utilities, the operators (the set-up        *)
(* dialog with studio.create_structure, studio.archive_iterate,          *)
(* studio.finalize) as the panel offers them,                            *)
(* the part of the file system they touch and the part of the host they  *)
(* call: bpy.path.abspath, bpy.ops.wm.save_as_mainfile, the object       *)
(* operators used by the scene wipe, os.makedirs, os.path.exists and     *)
(* shutil.move.                                                          *)
(*                                                                       *)
(* A path is a sequence of components.  A text that the code processes   *)
(* character by character (the asset name) is a sequence of one-letter   *)
(* strings; every other text is a string.                                *)
(*************************************************************************)
EXTENDS Integers, Sequences, FiniteSets, TLC

-----------------------------------------------------------------------------
(* Bounds of the model *)

\* Version Up is not taken any more once the version has reached MaxVersion
MaxVersion == 2

\* an operation that saves the document is not taken any more once the
\* document's path has this many components
MaxDepth == 7

\* the calls of os.makedirs, of the host and of shutil.move raise at most
\* MaxFaults times in a run
MaxFaults == 1

\* the user edits at most MaxEdits fields of the set-up dialog in a run
MaxEdits == 1

\* the path utilities are probed for the versions 1 .. MaxProbeVersion
MaxProbeVersion == 101

-----------------------------------------------------------------------------
(* Constants and configuration *)

\* the identifiers of TYPE_ITEMS
TYPE_ITEMS == {"prp", "chr", "res"}

\* default of StudioProjectProps.base_path: relative to the document
DefaultBasePath == <<"//">>

\* a base path picked by the user in the set-up dialog: an absolute folder,
\* taken as one component
AbsoluteBasePath == <<"/studio">>

BasePaths == {DefaultBasePath, AbsoluteBasePath}

\* default of StudioProjectProps.asset_name, "New_Asset"
DefaultAssetName == <<"N", "e", "w", "_", "A", "s", "s", "e", "t">>

\* an asset name with a space in it, "My Asset"
SpacedAssetName == <<"M", "y", " ", "A", "s", "s", "e", "t">>

AssetNames == {DefaultAssetName, SpacedAssetName}

\* default of StudioProjectProps.asset_type
DefaultAssetType == "prp"

\* default of StudioProjectProps.version
DefaultVersion == 1

-----------------------------------------------------------------------------
(* Text helpers: str.replace, str.join of the pieces, the format "02d" *)

\* s.replace(old, new) for one-letter old and new
Replace(s, old, new) == [i \in 1..Len(s) |-> IF s[i] = old THEN new ELSE s[i]]

RECURSIVE StrJoin(_)
\* the string made of the letters of s
StrJoin(s) == IF s = <<>> THEN "" ELSE Head(s) \o StrJoin(Tail(s))

Digit(d) == <<"0", "1", "2", "3", "4", "5", "6", "7", "8", "9">>[d + 1]

RECURSIVE IntStr(_)
\* the decimal digits of n >= 0
IntStr(n) == IF n < 10 THEN Digit(n) ELSE IntStr(n \div 10) \o Digit(n % 10)

\* the format specification 02d with every digit of n cut but the last two:
\* what a fixed-width field would print
Format02dFixedWidth(n) == Digit((n \div 10) % 10) \o Digit(n % 10)

\* f"{n:02d}": at least two digits, padded with zeros on the left
Format02d(n) == IF Len(IntStr(n)) < 2 THEN "0" \o IntStr(n) ELSE IntStr(n)

-----------------------------------------------------------------------------
(* Path helpers *)

\* os.path.join(a, b) where b is relative
os_path_join(a, b) == a \o b

\* os.path.dirname(p); the folder of the empty path is the empty path
os_path_dirname(p) == IF p = <<>> THEN <<>> ELSE SubSeq(p, 1, Len(p) - 1)

\* bpy.path.abspath(path): a path that starts with "//" is relative to the
\* folder of the current document (bpy.data.filepath), any other path is
\* returned as it is
abspath(path, filepath) ==
    IF path # <<>> /\ Head(path) = "//"
    THEN os_path_join(os_path_dirname(filepath), Tail(path))
    ELSE path

\* p is q or lies below q
IsUnder(p, q) == Len(q) <= Len(p) /\ SubSeq(p, 1, Len(q)) = q

\* p and all its ancestors
Prefixes(p) == {SubSeq(p, 1, k) : k \in 1..Len(p)}

-----------------------------------------------------------------------------
(* PATH UTILITIES *)

safe_name(props) == StrJoin(Replace(props.asset_name, " ", "_"))

get_project_root(props, filepath) ==
    os_path_join(abspath(props.base_path, filepath),
                 <<props.asset_type \o "_" \o safe_name(props)>>)

get_version_folder(props, filepath, version_int) ==
    os_path_join(get_project_root(props, filepath),
                 <<"v" \o Format02d(version_int)>>)

get_arch_folder(props, filepath) ==
    os_path_join(get_project_root(props, filepath), <<"arch">>)

get_blend_filename(props, version_int, state) ==
    props.asset_type \o "_" \o safe_name(props) \o "_v"
        \o Format02d(version_int) \o "_" \o state \o ".blend"

\* os.path.join(ver_folder, "wip", "projects")
wip_projects(ver_folder) == os_path_join(ver_folder, <<"wip", "projects">>)

\* os.path.join(ver_folder, "fin", "projects")
fin_projects(ver_folder) == os_path_join(ver_folder, <<"fin", "projects">>)

-----------------------------------------------------------------------------
(* State *)

VARIABLES
    studio_props, \* scene.studio_props: base_path, asset_type, asset_name,
                  \* version, is_generated
    filepath,     \* bpy.data.filepath, <<>> while the document is unsaved
    objects,      \* TRUE while the scene of the document holds objects
    dirs,         \* the folders that exist on disk
    files,        \* the files that exist on disk
    last,         \* what the last operator call did: its name, what it
                  \* returned, the levels it reported, the step that failed,
                  \* whether it saved the document, the archive branch taken
    external,     \* TRUE once the disk has been changed from outside
    edits,        \* how many fields of the set-up dialog have been edited
    faults,       \* how many calls of os.makedirs, of the host and of
                  \* shutil.move have raised so far
    run,          \* "fresh" before any call, "clean" while the calls so far
                  \* are a successful initialisation at version 1 followed by
                  \* successful Version Up and Publish Final calls only
    probe         \* the paths computed by the last probe of the path utilities

vars == <<studio_props, filepath, objects, dirs, files, last, external, edits,
          faults, run, probe>>

NoCall == [op |-> "none", result |-> "none", reports |-> {}, fail |-> "none",
           saved |-> FALSE, archive |-> "none"]

NoProbe == [v |-> 0, w |-> 0]

-----------------------------------------------------------------------------
(* File system and host calls *)

\* os.path.exists(p)
os_path_exists(d, f, p) == p \in d \/ p \in f

\* os.makedirs(p, exist_ok=True): creates the missing ancestors of p from the
\* top down and then p, or raises OSError at one of them: the folders made
\* before that one stay.  Nothing is raised when p is there already.
os_makedirs(d, p) ==
    {[ok |-> TRUE, dirs |-> d \cup Prefixes(p)]}
    \cup (IF p \in d THEN {}
          ELSE {[ok |-> FALSE, dirs |-> d \cup Prefixes(SubSeq(p, 1, j))] :
                    j \in 0..(Len(p) - 1)})

RECURSIVE makedirs_each(_, _)
\* os.makedirs on each path of ps in turn, up to the first one that raises
makedirs_each(d, ps) ==
    IF ps = <<>> THEN {[ok |-> TRUE, dirs |-> d]}
    ELSE UNION {IF o.ok THEN makedirs_each(o.dirs, Tail(ps)) ELSE {o} :
                    o \in os_makedirs(d, Head(ps))}

\* the path q, which lies under src, after src has become dst
Rebase(q, src, dst) == dst \o SubSeq(q, Len(src) + 1, Len(q))

\* the entries of the tree t directly inside the folder q
Children(t, q) == {c \in t : Len(c) = Len(q) + 1 /\ IsUnder(c, q)}

\* shutil.copytree(src, dst) that raises: os.makedirs(dst) raised (see
\* os_makedirs), or dst was made and the entries of the tree t of src were
\* copied but for those that failed and all below them; the errors are
\* raised at the end, also when only special files were left out.  What is
\* returned is the set of entries of t that were copied.
copytree_copied(t, src) ==
    {c \in SUBSET t :
        /\ src \in c
        /\ \A q \in c : q = src \/ os_path_dirname(q) \in c}

RECURSIVE rmtree_left(_, _)
\* shutil.rmtree(q) that raises: the entries of the tree t that are left
\* below and at the folder q.  The entries of a folder are removed one after
\* the other, a folder after its entries, up to the first failure: an entry
\* is gone with all below it, or untouched, or it is the folder where the
\* failure happened.
rmtree_left(t, q) ==
    LET ch == Children(t, q)
        Whole(c) == {e \in t : IsUnder(e, c)}
    IN UNION {
          {{q} \cup UNION {Whole(c) : c \in ch \ gone}}
          \cup UNION {{{q} \cup UNION {Whole(c) : c \in ch \ (gone \cup {at})}
                           \cup l : l \in rmtree_left(t, at)} :
                         at \in ch \ gone} :
          gone \in SUBSET ch}

\* shutil.move(src, dst) for a folder src and a dst that does not exist.
\* os.rename makes the whole subtree of src the subtree of dst.  When the
\* rename fails the tree is copied with shutil.copytree, which creates the
\* missing ancestors of dst, and src is removed with shutil.rmtree.  An
\* exception leaves the disk as it was, or with ancestors of dst made, or
\* with a part or all of the tree copied and src in place, or with all of
\* it copied and a part of src removed.
shutil_move(d, f, src, dst) ==
    LET t == {q \in d \cup f : IsUnder(q, src)}
        To(c) == {Rebase(q, src, dst) : q \in c}
        Copied(c) ==
            [ok |-> FALSE,
             dirs |-> d \cup Prefixes(dst) \cup To(c \cap d),
             files |-> f \cup To(c \cap f)]
        Left(l) ==
            [ok |-> FALSE,
             dirs |-> ((d \ t) \cup (l \cap d)) \cup Prefixes(dst) \cup To(t \cap d),
             files |-> ((f \ t) \cup (l \cap f)) \cup To(t \cap f)]
    IN {[ok |-> TRUE,
         dirs |-> (d \ t) \cup Prefixes(dst) \cup To(t \cap d),
         files |-> (f \ t) \cup To(t \cap f)]}
       \cup {[ok |-> FALSE, dirs |-> o.dirs, files |-> f] :
                o \in {x \in os_makedirs(d, dst) : ~x.ok}}
       \cup {Copied(c) : c \in copytree_copied(t, src)}
       \cup {Left(l) : l \in rmtree_left(t, src)}

\* bpy.ops.wm.save_as_mainfile(filepath=path, copy=copy): writes the file and,
\* unless copy, makes path the document's own path; or raises
save_as_mainfile(r, path, copy) ==
    {[ok |-> TRUE, files |-> r.files \cup {path},
      filepath |-> IF copy THEN r.filepath ELSE path],
     [ok |-> FALSE, files |-> r.files, filepath |-> r.filepath]}

-----------------------------------------------------------------------------
(* An operator call in progress: the state it works on, and pc = "done" once *)
(* it has returned or raised                                                 *)

Call(op) ==
    [props |-> studio_props, filepath |-> filepath, objects |-> objects,
     dirs |-> dirs, files |-> files, pc |-> "run",
     last |-> [NoCall EXCEPT !.op = op]]

\* self.report({level}, ...)
report(r, level) == [r EXCEPT !.last.reports = @ \cup {level}]

\* return {result}
return(r, result) == [r EXCEPT !.pc = "done", !.last.result = result]

\* an exception leaves execute
raise(r, step) ==
    [r EXCEPT !.pc = "done", !.last.result = "EXCEPTION", !.last.fail = step]

\* the except clause of a try: report at level and return {'CANCELLED'}
cancel(r, step, level) ==
    [return(report(r, level), "CANCELLED") EXCEPT !.last.fail = step]

\* a call of os.makedirs, of the host or of shutil.move raised in the call
Faulty(r) == r.last.fail # "none" \/ r.last.archive = "move_failed"

\* the state after the call
Becomes(r) ==
    /\ faults' = IF Faulty(r) THEN faults + 1 ELSE faults
    /\ faults' <= MaxFaults
    /\ edits' = edits
    /\ studio_props' = r.props
    /\ filepath' = r.filepath
    /\ objects' = r.objects
    /\ dirs' = r.dirs
    /\ files' = r.files
    /\ last' = r.last

-----------------------------------------------------------------------------
(* STUDIO_OT_create_structure *)

\* 2. Create physical folders
create_structure_folders(r, wip_dir, fin_dir, arch_dir) ==
    {IF o.ok THEN [r EXCEPT !.dirs = o.dirs]
     ELSE cancel([r EXCEPT !.dirs = o.dirs], "folders", "ERROR") :
        o \in makedirs_each(r.dirs, <<wip_dir, fin_dir, arch_dir>>)}

\* 3. with the flag set ahead of the save
create_structure_save_flag_first(r, full_path) ==
    IF r.pc = "done" THEN {r}
    ELSE {IF o.ok
          THEN report([r EXCEPT !.files = o.files, !.filepath = o.filepath,
                                !.props.is_generated = TRUE,
                                !.last.saved = TRUE], "INFO")
          ELSE cancel([r EXCEPT !.props.is_generated = TRUE], "save", "ERROR") :
             o \in save_as_mainfile(r, full_path, FALSE)}

\* 3. Save the initial .blend file
create_structure_save(r, full_path) ==
    IF r.pc = "done" THEN {r}
    ELSE {IF o.ok
          THEN report([r EXCEPT !.files = o.files, !.filepath = o.filepath,
                                !.props.is_generated = TRUE,
                                !.last.saved = TRUE], "INFO")
          ELSE cancel(r, "save", "ERROR") :
             o \in save_as_mainfile(r, full_path, FALSE)}

create_structure_execute(r) ==
    LET ver_folder == get_version_folder(r.props, r.filepath, r.props.version)
        wip_dir == wip_projects(ver_folder)
        fin_dir == fin_projects(ver_folder)
        arch_dir == get_arch_folder(r.props, r.filepath)
        fname == get_blend_filename(r.props, r.props.version, "wip")
        full_path == os_path_join(wip_dir, <<fname>>)
        r2 == create_structure_folders(r, wip_dir, fin_dir, arch_dir)
        r3 == UNION {create_structure_save(x, full_path) : x \in r2}
    IN {IF x.pc = "done" THEN x ELSE return(x, "FINISHED") : x \in r3}

-----------------------------------------------------------------------------
(* STUDIO_OT_archive_and_iterate *)

\* 1. Setup Next Version Folders
archive_iterate_folders(r, new_wip_dir, new_fin_dir) ==
    {IF o.ok THEN [r EXCEPT !.dirs = o.dirs]
     ELSE raise([r EXCEPT !.dirs = o.dirs], "folders") :
        o \in makedirs_each(r.dirs, <<new_wip_dir, new_fin_dir>>)}

\* 2. Wipe Scene (Optional): select_all and delete, then orphans_purge; the
\* first two raise with the objects still there, the last with them gone
archive_iterate_wipe(r, wipe_scene) ==
    IF r.pc = "done" \/ ~wipe_scene THEN {r}
    ELSE {[r EXCEPT !.objects = FALSE],
          raise(r, "wipe"),
          raise([r EXCEPT !.objects = FALSE], "wipe")}

\* 3. with a failed save reported and the operator carrying on
archive_iterate_save_carry_on(r, new_filepath) ==
    IF r.pc = "done" THEN {r}
    ELSE {IF o.ok
          THEN [r EXCEPT !.files = o.files, !.filepath = o.filepath,
                         !.last.saved = TRUE]
          ELSE [report(r, "ERROR") EXCEPT !.last.fail = "save"] :
             o \in save_as_mainfile(r, new_filepath, FALSE)}

\* 3. Save New Version File
archive_iterate_save(r, new_filepath) ==
    IF r.pc = "done" THEN {r}
    ELSE {IF o.ok
          THEN [r EXCEPT !.files = o.files, !.filepath = o.filepath,
                         !.last.saved = TRUE]
          ELSE raise(r, "save") :
             o \in save_as_mainfile(r, new_filepath, FALSE)}

\* the move and its two reports
archive_iterate_move(r, old_ver_folder, dest_in_arch) ==
    {IF o.ok
     THEN report([r EXCEPT !.dirs = o.dirs, !.files = o.files,
                           !.last.archive = "moved"], "INFO")
     ELSE report([r EXCEPT !.dirs = o.dirs, !.files = o.files,
                           !.last.archive = "move_failed"], "WARNING") :
        o \in shutil_move(r.dirs, r.files, old_ver_folder, dest_in_arch)}

\* 4. without the test of the destination
archive_iterate_archive_unchecked(r, old_ver_folder, dest_in_arch) ==
    IF r.pc = "done" THEN {r}
    ELSE IF os_path_exists(r.dirs, r.files, old_ver_folder)
         THEN archive_iterate_move(r, old_ver_folder, dest_in_arch)
         ELSE {[r EXCEPT !.last.archive = "missing"]}

\* 4. Move Old Version to Archive
archive_iterate_archive(r, old_ver_folder, dest_in_arch) ==
    IF r.pc = "done" THEN {r}
    ELSE IF os_path_exists(r.dirs, r.files, old_ver_folder)
         THEN IF ~os_path_exists(r.dirs, r.files, dest_in_arch)
              THEN archive_iterate_move(r, old_ver_folder, dest_in_arch)
              ELSE {report([r EXCEPT !.last.archive = "exists"], "WARNING")}
         ELSE {[r EXCEPT !.last.archive = "missing"]}

\* 5. with the version written only after a move
archive_iterate_update_after_move(r, next_ver) ==
    IF r.pc = "done" THEN r
    ELSE IF r.last.archive = "moved"
         THEN return([r EXCEPT !.props.version = next_ver], "FINISHED")
         ELSE return(r, "FINISHED")

\* 5. Update Version Property, and return
archive_iterate_update(r, next_ver) ==
    IF r.pc = "done" THEN r
    ELSE return([r EXCEPT !.props.version = next_ver], "FINISHED")

archive_iterate_execute(r0, wipe_scene) ==
    LET r == r0
        cur_ver == r.props.version
        next_ver == cur_ver + 1
        old_ver_folder == get_version_folder(r.props, r.filepath, cur_ver)
        arch_root == get_arch_folder(r.props, r.filepath)
        new_ver_folder == get_version_folder(r.props, r.filepath, next_ver)
        new_wip_dir == wip_projects(new_ver_folder)
        new_fin_dir == fin_projects(new_ver_folder)
        new_fname == get_blend_filename(r.props, next_ver, "wip")
        new_filepath == os_path_join(new_wip_dir, <<new_fname>>)
        dest_in_arch == os_path_join(arch_root, <<"v" \o Format02d(cur_ver)>>)
        r1 == archive_iterate_folders(r, new_wip_dir, new_fin_dir)
        r2 == UNION {archive_iterate_wipe(x, wipe_scene) : x \in r1}
        r3 == UNION {archive_iterate_save(x, new_filepath) : x \in r2}
        r4 == UNION {archive_iterate_archive(x, old_ver_folder, dest_in_arch) :
                        x \in r3}
    IN {archive_iterate_update(x, next_ver) : x \in r4}

-----------------------------------------------------------------------------
(* STUDIO_OT_finalize *)

\* if not os.path.exists(fin_dir): os.makedirs(fin_dir, exist_ok=True)
finalize_folder(r, fin_dir) ==
    IF os_path_exists(r.dirs, r.files, fin_dir) THEN {r}
    ELSE {IF o.ok THEN [r EXCEPT !.dirs = o.dirs]
          ELSE raise([r EXCEPT !.dirs = o.dirs], "folders") :
             o \in os_makedirs(r.dirs, fin_dir)}

\* the copy is saved with the version counted up
finalize_save_counting(r, path) ==
    IF r.pc = "done" THEN {r}
    ELSE {IF o.ok
          THEN return(report([r EXCEPT !.files = o.files,
                                       !.filepath = o.filepath,
                                       !.props.version = @ + 1,
                                       !.last.saved = TRUE], "INFO"),
                      "FINISHED")
          ELSE raise(r, "save") :
             o \in save_as_mainfile(r, path, TRUE)}

\* bpy.ops.wm.save_as_mainfile(filepath=path, copy=True), report, return
finalize_save(r, path) ==
    IF r.pc = "done" THEN {r}
    ELSE {IF o.ok
          THEN return(report([r EXCEPT !.files = o.files,
                                       !.filepath = o.filepath,
                                       !.last.saved = TRUE], "INFO"),
                      "FINISHED")
          ELSE raise(r, "save") :
             o \in save_as_mainfile(r, path, TRUE)}

finalize_execute(r) ==
    LET ver_folder == get_version_folder(r.props, r.filepath, r.props.version)
        fin_dir == fin_projects(ver_folder)
        fname == get_blend_filename(r.props, r.props.version, "fin")
        path == os_path_join(fin_dir, <<fname>>)
        r1 == finalize_folder(r, fin_dir)
    IN UNION {finalize_save(x, path) : x \in r1}

-----------------------------------------------------------------------------
(* The state machine *)

\* the project folder of the settings props holds nothing
ProjectRootEmpty(props) ==
    LET root == get_project_root(props, filepath)
    IN \A q \in dirs \cup files : ~(IsUnder(q, root) /\ q # root)

\* the state after registration with the properties props: the document is
\* unsaved and nothing is on disk but the folder the user can pick as base
Configured(base_paths, asset_types, asset_names) ==
    /\ studio_props \in [base_path : base_paths, asset_type : asset_types,
                         asset_name : asset_names, version : {DefaultVersion},
                         is_generated : {FALSE}]
    /\ filepath = <<>>
    /\ objects = TRUE
    /\ dirs = {AbsoluteBasePath}
    /\ files = {}
    /\ last = NoCall
    /\ external = FALSE
    /\ edits = 0
    /\ faults = 0
    /\ run = "fresh"
    /\ probe = NoProbe

\* the properties have their defaults
Init == Configured({DefaultBasePath}, {DefaultAssetType}, {DefaultAssetName})

\* the run is clean after this call of create_structure, which left r
CleanStart(r) ==
    IF /\ run = "fresh"
       /\ r.props.version = 1
       /\ ProjectRootEmpty(r.props)
       /\ r.last.result = "FINISHED"
    THEN "clean" ELSE "dirty"

\* The set-up dialog, shown by the panel and by the load handler while
\* is_generated is off.  Its fields are bound to scene.studio_props: an edit
\* is a write of its own, made before the dialog is confirmed, and it stays
\* when the dialog is cancelled.
EditSetting(props) ==
    /\ ~studio_props.is_generated
    /\ props # studio_props
    /\ edits < MaxEdits
    /\ edits' = edits + 1
    /\ studio_props' = props
    /\ last' = NoCall
    /\ UNCHANGED <<filepath, objects, dirs, files, external, faults, run,
                   probe>>

\* the user edits the base path in the dialog
EditBasePath ==
    \E base_path \in BasePaths :
       EditSetting([studio_props EXCEPT !.base_path = base_path])

\* the user picks the asset type in the dialog
EditAssetType ==
    \E asset_type \in TYPE_ITEMS :
       EditSetting([studio_props EXCEPT !.asset_type = asset_type])

\* the user edits the asset name in the dialog
EditAssetName ==
    \E asset_name \in AssetNames :
       EditSetting([studio_props EXCEPT !.asset_name = asset_name])

\* the user confirms the dialog: execute calls studio.create_structure
StartupDialog ==
    /\ ~studio_props.is_generated
    /\ Len(filepath) < MaxDepth
    /\ \E r \in create_structure_execute(Call("create_structure")) :
          /\ Becomes(r)
          /\ run' = CleanStart(r)
    /\ UNCHANGED <<external, probe>>

\* the panel offers Version Up once is_generated is on; the user presses it
\* and confirms its dialog
ArchiveAndIterate ==
    /\ studio_props.is_generated
    /\ Len(filepath) < MaxDepth
    /\ studio_props.version < MaxVersion
    /\ \E wipe_scene \in BOOLEAN :
       \E r \in archive_iterate_execute(Call("archive_iterate"), wipe_scene) :
          /\ Becomes(r)
          /\ run' = IF /\ run = "clean"
                       /\ r.last.result = "FINISHED"
                       /\ r.last.archive # "move_failed"
                    THEN "clean" ELSE "dirty"
    /\ UNCHANGED <<external, probe>>

\* the panel offers Publish Final once is_generated is on; the user presses it
Finalize ==
    /\ studio_props.is_generated
    /\ \E r \in finalize_execute(Call("finalize")) :
          /\ Becomes(r)
          /\ run' = IF run = "clean" /\ r.last.result = "FINISHED"
                    THEN "clean" ELSE "dirty"
    /\ UNCHANGED <<external, probe>>

\* somebody creates the archive entry of the current version of the set-up
\* project on the disk
ExternalCreate ==
    LET dest == os_path_join(get_arch_folder(studio_props, filepath),
                             <<"v" \o Format02d(studio_props.version)>>)
    IN /\ ~external
       /\ studio_props.is_generated
       /\ dest \notin dirs
       /\ dirs' = dirs \cup Prefixes(dest)
       /\ external' = TRUE
       /\ last' = [NoCall EXCEPT !.op = "external"]
       /\ run' = "dirty"
       /\ UNCHANGED <<studio_props, filepath, objects, files, edits, faults,
                      probe>>

Next ==
    \/ EditBasePath
    \/ EditAssetType
    \/ EditAssetName
    \/ StartupDialog
    \/ ArchiveAndIterate
    \/ Finalize
    \/ ExternalCreate

Spec == Init /\ [][Next]_vars

-----------------------------------------------------------------------------
(* The path utilities on their own *)

InitPaths == Configured(BasePaths, TYPE_ITEMS, AssetNames)

\* the versions probed after the last probe: 1 and 1 at first, then one of
\* the two versions counted up
NextProbes ==
    IF probe = NoProbe THEN {<<1, 1>>}
    ELSE {<<probe.v + 1, probe.w>>, <<probe.v, probe.w + 1>>}
         \cap ((1..MaxProbeVersion) \X (1..MaxProbeVersion))

\* the path utilities are called for two versions v and w
ProbePaths ==
    /\ \E p \in NextProbes :
          probe' = [v |-> p[1], w |-> p[2],
                    root |-> get_project_root(studio_props, filepath),
                    arch |-> get_arch_folder(studio_props, filepath),
                    folder_v |-> get_version_folder(studio_props, filepath, p[1]),
                    folder_w |-> get_version_folder(studio_props, filepath, p[2]),
                    wip |-> get_blend_filename(studio_props, p[1], "wip"),
                    fin |-> get_blend_filename(studio_props, p[1], "fin")]
    /\ UNCHANGED <<studio_props, filepath, objects, dirs, files, last,
                   external, edits, faults, run>>

NextPaths == ProbePaths

SpecPaths == InitPaths /\ [][NextPaths]_vars

-----------------------------------------------------------------------------
(* Properties.  In an action formula the unprimed state is the state the  *)
(* operator was called in and last' tells what the call did.              *)

\* the folders and files that are p or lie below p
Subtree(d, f, p) == {q \in d \cup f : IsUnder(q, p)}

\* the folder of the current version, as the operators compute it
CurrentVersionFolder ==
    get_version_folder(studio_props, filepath, studio_props.version)

\* the archive entry of the current version, as Version Up computes it
CurrentArchiveEntry ==
    os_path_join(get_arch_folder(studio_props, filepath),
                 <<"v" \o Format02d(studio_props.version)>>)

\* the document Version Up saves for the next version
NextWipDocument ==
    os_path_join(wip_projects(get_version_folder(studio_props, filepath,
                                                 studio_props.version + 1)),
                 <<get_blend_filename(studio_props, studio_props.version + 1,
                                      "wip")>>)

\* C1: a Version Up call started at version N that has saved the document
\* of version N+1 returns FINISHED with the version at N+1, whichever way the
\* archive step went: old folder missing (nothing reported), archive entry
\* already there (a warning), the move raised (a warning), or the move done.
C1_VersionAdvancesOnceSaved ==
    [][(last'.op = "archive_iterate" /\ last'.saved) =>
          /\ NextWipDocument \in files'
          /\ studio_props'.version = studio_props.version + 1
          /\ last'.result = "FINISHED"
          /\ last'.archive \in {"missing", "exists", "move_failed", "moved"}
          /\ (last'.archive = "missing" => last'.reports = {})
          /\ (last'.archive \in {"exists", "move_failed"} =>
                last'.reports = {"WARNING"})
          /\ (last'.archive = "moved" => last'.reports = {"INFO"})]_vars

\* a Version Up call whose move to the archive raised, and which advanced
C1_Witness ==
    /\ last.op = "archive_iterate"
    /\ last.saved
    /\ last.archive = "move_failed"
    /\ studio_props.version = 2

\* C2: a folder-creation failure or a save failure inside Initialize
\* Workbench or Version Up never leaves the operator as an exception: the
\* operator returns a result and has reported an error or a warning.
C2_NoFailureEscapes ==
    (last.op \in {"create_structure", "archive_iterate"}
        /\ last.fail \in {"folders", "save"}) =>
    (last.result \in {"CANCELLED", "FINISHED"}
        /\ last.reports \cap {"ERROR", "WARNING"} # {})

\* C3: Initialize Workbench turns is_generated on only in a call that
\* created the three folders and saved the document (the paths are those of
\* the settings the call ran with); a call whose folder
\* creation failed reports an error and is cancelled, with no save and the
\* flag as it was; a call whose save failed reports an error and is
\* cancelled, with the flag as it was and the three folders on disk.
C3_GeneratedOnlyAfterFoldersAndSave ==
    [][last'.op = "create_structure" =>
          LET ver_folder == get_version_folder(studio_props', filepath,
                                               studio_props'.version)
              wip_dir == wip_projects(ver_folder)
              fin_dir == fin_projects(ver_folder)
              arch_dir == get_arch_folder(studio_props', filepath)
              full_path ==
                  os_path_join(wip_dir,
                               <<get_blend_filename(studio_props',
                                     studio_props'.version, "wip")>>)
          IN /\ (studio_props'.is_generated /\ ~studio_props.is_generated =>
                    /\ last'.result = "FINISHED"
                    /\ last'.saved
                    /\ {wip_dir, fin_dir, arch_dir} \subseteq dirs'
                    /\ full_path \in files')
             /\ (last'.fail = "folders" =>
                    /\ last'.result = "CANCELLED"
                    /\ last'.reports = {"ERROR"}
                    /\ ~last'.saved
                    /\ files' = files /\ filepath' = filepath
                    /\ studio_props'.is_generated = studio_props.is_generated)
             /\ (last'.fail = "save" =>
                    /\ last'.result = "CANCELLED"
                    /\ last'.reports = {"ERROR"}
                    /\ files' = files /\ filepath' = filepath
                    /\ studio_props'.is_generated = studio_props.is_generated
                    /\ {wip_dir, fin_dir, arch_dir} \subseteq dirs'
                    /\ dirs \subseteq dirs')
             /\ (last'.fail = "none" =>
                    last'.result = "FINISHED" /\ studio_props'.is_generated)
             /\ last'.fail \in {"none", "folders", "save"}]_vars

\* an Initialize Workbench call whose save failed, on a project that has not
\* been initialised: the folders are there, the flag is off
C3_Witness ==
    /\ last.op = "create_structure"
    /\ last.fail = "save"
    /\ ~studio_props.is_generated
    /\ wip_projects(CurrentVersionFolder) \in dirs

\* C4: whenever is_generated is on, the folder wip/projects of the current
\* version exists and holds the saved wip document of that version.
C4_GeneratedHasCurrentWip ==
    studio_props.is_generated =>
        /\ wip_projects(CurrentVersionFolder) \in dirs
        /\ os_path_join(wip_projects(CurrentVersionFolder),
                        <<get_blend_filename(studio_props,
                              studio_props.version, "wip")>>) \in files

\* C5: a Version Up call that reaches its archive step with the old version
\* folder on disk and its archive entry already there moves nothing: the old
\* folder and everything below it stay as they were, the archive entry and
\* everything below it stay as they were, and a warning is reported.
C5_ExistingArchiveEntryNotOverwritten ==
    [][(/\ last'.op = "archive_iterate"
        /\ last'.saved
        /\ os_path_exists(dirs, files, CurrentVersionFolder)
        /\ os_path_exists(dirs, files, CurrentArchiveEntry)) =>
          /\ CurrentVersionFolder \in dirs'
          /\ Subtree(dirs', files', CurrentVersionFolder)
                = Subtree(dirs, files, CurrentVersionFolder)
          /\ Subtree(dirs', files', CurrentArchiveEntry)
                = Subtree(dirs, files, CurrentArchiveEntry)
          /\ "WARNING" \in last'.reports
          /\ last'.archive = "exists"]_vars

\* a Version Up call that found the archive entry of the initialised version 1
\* already there: the wip document of version 1 is still where Initialize
\* Workbench saved it from the unsaved document
C5_Witness ==
    /\ last.op = "archive_iterate"
    /\ last.archive = "exists"
    /\ studio_props.version = 2
    /\ os_path_join(wip_projects(get_version_folder(studio_props, <<>>, 1)),
                    <<get_blend_filename(studio_props, 1, "wip")>>) \in files

\* C6: a Version Up call whose wipe of the scene failed still saves the
\* document of the next version.
C6_SaveAfterFailedWipe ==
    (last.op = "archive_iterate" /\ last.fail = "wipe") => last.saved

\* C7: a Version Up call whose save failed is aborted with the version and
\* is_generated as they were and the old version folder and its archive
\* entry untouched; and a call that changed the version, moved the old
\* folder or touched the archive entry did save the next version's document.
C7_NothingMutatedWhenSaveFails ==
    [][last'.op = "archive_iterate" =>
          /\ (last'.fail = "save" =>
                /\ last'.result # "FINISHED"
                /\ ~last'.saved
                /\ studio_props' = studio_props
                /\ Subtree(dirs', files', CurrentVersionFolder)
                      = Subtree(dirs, files, CurrentVersionFolder)
                /\ Subtree(dirs', files', CurrentArchiveEntry)
                      = Subtree(dirs, files, CurrentArchiveEntry))
          /\ ((\/ studio_props'.version # studio_props.version
               \/ Subtree(dirs', files', CurrentVersionFolder)
                     # Subtree(dirs, files, CurrentVersionFolder)
               \/ Subtree(dirs', files', CurrentArchiveEntry)
                     # Subtree(dirs, files, CurrentArchiveEntry)) =>
                /\ last'.saved
                /\ NextWipDocument \in files')]_vars

\* a Version Up call whose save failed, on an initialised project whose old
\* version folder could have been moved
C7_Witness ==
    /\ last.op = "archive_iterate"
    /\ last.fail = "save"
    /\ studio_props.is_generated
    /\ CurrentVersionFolder \in dirs
    /\ CurrentArchiveEntry \notin dirs

\* C8: the version starts at 1; a step changes it only by +1 and only in a
\* Version Up call; Initialize Workbench leaves it alone and Publish Final
\* leaves all of studio_props alone.
C8_VersionMonotonic ==
    /\ studio_props.version = 1
    /\ [][/\ \/ studio_props'.version = studio_props.version
             \/ /\ studio_props'.version = studio_props.version + 1
                /\ last'.op = "archive_iterate"
          /\ (last'.op = "create_structure" =>
                studio_props'.version = studio_props.version)
          /\ (last'.op = "finalize" => studio_props' = studio_props)]_vars

\* a Publish Final call that saved its copy after a Version Up call
C8_Witness ==
    /\ last.op = "finalize"
    /\ last.saved
    /\ studio_props.version = 2

\* C9: for one configuration, the version folders of two different versions
\* differ, the wip and the fin file names of a version differ, and a version
\* folder is a direct child of the project root other than the archive folder.
C9_PathsDistinct ==
    probe # NoProbe =>
        /\ (probe.folder_v = probe.folder_w => probe.v = probe.w)
        /\ probe.wip # probe.fin
        /\ os_path_dirname(probe.folder_v) = probe.root
        /\ Len(probe.folder_v) = Len(probe.root) + 1
        /\ probe.folder_v # probe.arch

\* the paths of the versions 101 and 1, whose last two digits agree
C9_Witness ==
    /\ probe # NoProbe
    /\ probe.v = 101
    /\ probe.w = 1
    /\ studio_props.asset_name = SpacedAssetName

\* C10: after a successful initialisation of an empty project at version 1
\* followed by successful Version Up and Publish Final calls, the project
\* root holds the archive folder and exactly one version folder, the one of
\* the current version, and the archive folder holds exactly the folders of
\* the versions 1 .. version-1, each with its wip and fin folders and its wip
\* document.
C10_LayoutAfterCleanRun ==
    run = "clean" =>
        LET root == get_project_root(studio_props, filepath)
            arch == get_arch_folder(studio_props, filepath)
            Name(v) == "v" \o Format02d(v)
        IN /\ {q \in dirs \cup files : os_path_dirname(q) = root /\ q # root}
                = {arch, CurrentVersionFolder}
           /\ {q \in dirs \cup files : os_path_dirname(q) = arch /\ q # arch}
                = {os_path_join(arch, <<Name(v)>>) :
                      v \in 1..(studio_props.version - 1)}
           /\ \A v \in 1..(studio_props.version - 1) :
                 LET entry == os_path_join(arch, <<Name(v)>>)
                 IN /\ wip_projects(entry) \in dirs
                    /\ fin_projects(entry) \in dirs
                    /\ os_path_join(wip_projects(entry),
                           <<get_blend_filename(studio_props, v, "wip")>>)
                          \in files

=============================================================================
